---- MODULE Spec2Model ----
(***************************************************************************)
(* nbsynthetic/synthetic.py: columns_type, data_transformation,            *)
(* generate_data and synthetic_data, as a state machine whose program      *)
(* counter walks through one call of synthetic_data.                       *)
(*                                                                         *)
(* Floating point values are exact rationals <<numerator, denominator>>    *)
(* (denominator > 0, lowest terms).  The scikit-learn transformers the     *)
(* code calls (MinMaxScaler, QuantileTransformer, KBinsDiscretizer) and    *)
(* the numpy / pandas helpers are operators that compute what the called   *)
(* routine computes.  The generator (GAN) is the caller's: its losses and  *)
(* its samples are chosen nondeterministically.                            *)
(***************************************************************************)
EXTENDS Integers, Sequences, FiniteSets, TLC

(***************************************************************************)
(* Bounds of the model.                                                    *)
(***************************************************************************)
MaxCols == 2        \* columns of the input dataset: 1..MaxCols
NRows == 3          \* rows of the input dataset
MaxVal == 2         \* input cells hold 0..MaxVal
MaxSamples == 2     \* requested synthetic rows: 1..MaxSamples

(***************************************************************************)
(* Exact arithmetic.                                                       *)
(***************************************************************************)
Abs(n) == IF n < 0 THEN -n ELSE n

RECURSIVE GCD(_, _)
GCD(a, b) == IF b = 0 THEN a ELSE GCD(b, a % b)

\* the rational n/d (d # 0) in lowest terms with a positive denominator
Rat(n, d) ==
    LET s == IF d < 0 THEN -1 ELSE 1
        g == GCD(Abs(n), Abs(d))
    IN  <<(s * n) \div g, (s * d) \div g>>

R(n) == <<n, 1>>
RAdd(a, b) == Rat(a[1] * b[2] + b[1] * a[2], a[2] * b[2])
RSub(a, b) == Rat(a[1] * b[2] - b[1] * a[2], a[2] * b[2])
RMul(a, b) == Rat(a[1] * b[1], a[2] * b[2])
RDiv(a, b) == Rat(a[1] * b[2], a[2] * b[1])
RNeg(a) == <<-a[1], a[2]>>
RLt(a, b) == a[1] * b[2] < b[1] * a[2]
RLe(a, b) == a[1] * b[2] <= b[1] * a[2]
RFloor(a) == a[1] \div a[2]

Range(s) == {s[i] : i \in DOMAIN s}
Reverse(s) == [i \in DOMAIN s |-> s[Len(s) + 1 - i]]

\* numpy min / max of a non-empty array
RMin(s) == CHOOSE m \in Range(s) : \A v \in Range(s) : RLe(m, v)
RMax(s) == CHOOSE m \in Range(s) : \A v \in Range(s) : RLe(v, m)

\* np.sort
Sorted(s) == SortSeq(s, RLt)

\* np.unique: the distinct values, ascending
RECURSIVE Ascending(_)
Ascending(S) ==
    IF S = {} THEN <<>>
    ELSE LET m == CHOOSE m \in S : \A v \in S : RLe(m, v)
         IN  <<m>> \o Ascending(S \ {m})

Unique(s) == Ascending(Range(s))

\* np.clip
Clip(x, lo, hi) == IF RLt(x, lo) THEN lo ELSE IF RLt(hi, x) THEN hi ELSE x

\* np.interp(x, xp, fp), xp ascending (ties allowed)
Interp(x, xp, fp) ==
    LET n == Len(xp)
    IN  IF RLt(x, xp[1]) THEN fp[1]
        ELSE IF RLe(xp[n], x) THEN fp[n]
        ELSE LET j == CHOOSE j \in 1..(n - 1) :
                          RLe(xp[j], x) /\ RLt(x, xp[j + 1])
             IN  IF xp[j] = x THEN fp[j]
                 ELSE RAdd(fp[j],
                           RMul(RSub(fp[j + 1], fp[j]),
                                RDiv(RSub(x, xp[j]), RSub(xp[j + 1], xp[j]))))

\* np.nanpercentile(X, 100 * q), linear interpolation, on the sorted column
Percentile(sorted, q) ==
    LET n == Len(sorted)
        pos == RMul(q, R(n - 1))
        j == RFloor(pos)
        frac == RSub(pos, R(j))
    IN  IF j + 1 >= n THEN sorted[n]
        ELSE RAdd(sorted[j + 1], RMul(frac, RSub(sorted[j + 2], sorted[j + 1])))

(***************************************************************************)
(* MinMaxScaler(feature_range = (lo, hi), clip = True).                    *)
(***************************************************************************)
\* fit refuses a feature range whose minimum is not below its maximum
BadFeatureRange(lo, hi) == ~RLt(lo, hi)

MinMaxFit(X, lo, hi) ==
    LET dmin == RMin(X)
        dmax == RMax(X)
        rng == IF dmax = dmin THEN R(1) ELSE RSub(dmax, dmin)
        scale == RDiv(RSub(hi, lo), rng)
    IN  [scale_ |-> scale, min_ |-> RSub(lo, RMul(dmin, scale)),
         lo |-> lo, hi |-> hi]

MinMaxTransform(fit, X) ==
    [i \in DOMAIN X |->
        Clip(RAdd(RMul(X[i], fit.scale_), fit.min_), fit.lo, fit.hi)]

MinMaxInverse(fit, X) ==
    [i \in DOMAIN X |-> RDiv(RSub(X[i], fit.min_), fit.scale_)]

(***************************************************************************)
(* QuantileTransformer(n_quantiles, output_distribution = 'uniform').      *)
(***************************************************************************)
QuantileFit(X, n_quantiles) ==
    LET refs == [i \in 1..n_quantiles |->
                    IF n_quantiles = 1 THEN R(0)
                    ELSE Rat(i - 1, n_quantiles - 1)]
        srt == Sorted(X)
    IN  [references_ |-> refs,
         quantiles_ |-> [i \in 1..n_quantiles |-> Percentile(srt, refs[i])]]

NegReverse(s) == Reverse([i \in DOMAIN s |-> RNeg(s[i])])

QuantileForward(fit, x) ==
    LET q == fit.quantiles_
        r == fit.references_
    IN  IF RLe(x, q[1]) THEN R(0)
        ELSE IF RLe(q[Len(q)], x) THEN R(1)
        ELSE RMul(Rat(1, 2),
                  RSub(Interp(x, q, r),
                       Interp(RNeg(x), NegReverse(q), NegReverse(r))))

QuantileBackward(fit, y) ==
    LET q == fit.quantiles_
    IN  IF RLe(y, R(0)) THEN q[1]
        ELSE IF RLe(R(1), y) THEN q[Len(q)]
        ELSE Interp(y, fit.references_, q)

(***************************************************************************)
(* KBinsDiscretizer(n_bins, encode = 'ordinal', strategy = 'uniform'),     *)
(* fit_transform on one column: the bin index of each value.               *)
(***************************************************************************)
KBinsFitTransform(X, n_bins) ==
    LET cmin == RMin(X)
        cmax == RMax(X)
        edge(j) == RAdd(cmin, RMul(Rat(j, n_bins), RSub(cmax, cmin)))
    IN  [i \in DOMAIN X |->
            IF cmin = cmax THEN R(0)
            ELSE R(Cardinality({j \in 1..(n_bins - 1) : RLe(edge(j), X[i])}))]

(***************************************************************************)
(* The dataset (pd.DataFrame): a sequence of columns, each with its name,  *)
(* whether its dtype is the categorical dtype, and its cells.  A cell is a *)
(* number, a string (the val-th label "A", "B", ...) or a missing value.   *)
(***************************************************************************)
NumCell(v) == [tag |-> "num", val |-> v]
StrCell(v) == [tag |-> "str", val |-> v]
NanCell == [tag |-> "nan", val |-> 0]

ColName(i) == "c" \o ToString(i)

ColumnNames(frame) == [i \in DOMAIN frame |-> frame[i].name]
HasColumn(frame, c) == \E i \in DOMAIN frame : frame[i].name = c
Column(frame, c) == frame[CHOOSE i \in DOMAIN frame : frame[i].name = c]

\* variant of SetColumn: the assigned column always moves to the end
SetColumnAtEnd(frame, c, vals) ==
    Append(SelectSeq(frame, LAMBDA col : col.name # c), [name |-> c, vals |-> vals])

\* frame[c] = vals: an existing column is overwritten in place, a new one
\* is appended
SetColumn(frame, c, vals) ==
    IF HasColumn(frame, c)
    THEN [i \in DOMAIN frame |->
            IF frame[i].name = c THEN [frame[i] EXCEPT !.vals = vals]
            ELSE frame[i]]
    ELSE Append(frame, [name |-> c, vals |-> vals])

\* np.array(df[c]) as floats
Values(d, c) == [r \in DOMAIN Column(d, c).vals |-> R(Column(d, c).vals[r].val)]

\* the conversion to float fails on a string
Convertible(d, c) == \A r \in DOMAIN Column(d, c).vals : Column(d, c).vals[r].tag # "str"

\* np.array(frame): row-major matrix of a frame
Matrix(frame, nrows) ==
    [r \in 1..nrows |-> [j \in DOMAIN frame |-> frame[j].vals[r]]]

\* pd.DataFrame(x, columns = names)
Frame(x, names) ==
    [j \in DOMAIN names |->
        [name |-> names[j], vals |-> [r \in DOMAIN x |-> x[r][j]]]]

NoError == [type |-> "none", msg |-> "", column |-> ""]
Error(type, msg, column) == [type |-> type, msg |-> msg, column |-> column]

(***************************************************************************)
(* columns_type                                                            *)
(***************************************************************************)
IsCategorical(col) == col.categorical
IsNumerical(col) == ~col.categorical

columns_type(d) ==
    [numerical_columns |-> ColumnNames(SelectSeq(d, IsNumerical)),
     categorical_columns |-> ColumnNames(SelectSeq(d, IsCategorical))]

(***************************************************************************)
(* data_transformation.  One categorical_scaler and one numerical_scaler   *)
(* are refitted on every column of their kind in turn: each column is      *)
(* transformed by its own fit, and the scaler that is returned holds the   *)
(* fit of the last column.                                                 *)
(***************************************************************************)
Unfitted == [fitted |-> FALSE]

NQuantiles(d) == IF Len(d[1].vals) > 99 THEN 100 ELSE Len(d[1].vals)

CategoricalFit(X) ==
    [fitted |-> TRUE, mm |-> MinMaxFit(X, R(-1), R(1))]
CategoricalTransform(scaler, X) == MinMaxTransform(scaler.mm, X)
CategoricalInverse(scaler, Y) == MinMaxInverse(scaler.mm, Y)

NumericalFit(X, n_quantiles) ==
    LET q == QuantileFit(X, n_quantiles)
        u == [i \in DOMAIN X |-> QuantileForward(q, X[i])]
    IN  [fitted |-> TRUE, q |-> q, mm |-> MinMaxFit(u, R(-1), R(1))]
NumericalTransform(scaler, X) ==
    MinMaxTransform(scaler.mm, [i \in DOMAIN X |-> QuantileForward(scaler.q, X[i])])
NumericalInverse(scaler, Y) ==
    LET u == MinMaxInverse(scaler.mm, Y)
    IN  [i \in DOMAIN Y |-> QuantileBackward(scaler.q, u[i])]

\* the loop of lines 94-97: state is the frame and the shared scaler
RECURSIVE ScaleCategorical(_, _, _)
ScaleCategorical(d, cols, st) ==
    IF cols = <<>> THEN st
    ELSE LET fit == CategoricalFit(Values(d, Head(cols)))
         IN  ScaleCategorical(d, Tail(cols),
                [scaled_X |-> SetColumn(st.scaled_X, Head(cols),
                                 CategoricalTransform(fit, Values(d, Head(cols)))),
                 scaler |-> fit])

\* the loop of lines 99-102
RECURSIVE ScaleNumerical(_, _, _)
ScaleNumerical(d, cols, st) ==
    IF cols = <<>> THEN st
    ELSE LET fit == NumericalFit(Values(d, Head(cols)), NQuantiles(d))
         IN  ScaleNumerical(d, Tail(cols),
                [scaled_X |-> SetColumn(st.scaled_X, Head(cols),
                                 NumericalTransform(fit, Values(d, Head(cols)))),
                 scaler |-> fit])

data_transformation(d, numerical_columns, categorical_columns) ==
    IF \E j \in DOMAIN d : ~Convertible(d, d[j].name)
    THEN [error |-> Error("ValueError", "could not convert string to float", ""),
          scaled_X |-> <<>>,
          categorical_scaler |-> Unfitted, numerical_scaler |-> Unfitted]
    ELSE LET copy == [j \in DOMAIN d |->
                        [name |-> d[j].name, vals |-> Values(d, d[j].name)]]
             cat == ScaleCategorical(d, categorical_columns,
                        [scaled_X |-> copy, scaler |-> Unfitted])
             num == ScaleNumerical(d, numerical_columns,
                        [scaled_X |-> cat.scaled_X, scaler |-> Unfitted])
         IN  [error |-> NoError,
              scaled_X |-> Matrix(num.scaled_X, Len(d[1].vals)),
              categorical_scaler |-> cat.scaler,
              numerical_scaler |-> num.scaler]

(***************************************************************************)
(* generate_data                                                           *)
(***************************************************************************)
NUnique(d, c) == Len(Unique(Values(d, c)))

\* the loop of lines 141-157
RECURSIVE InverseCategorical(_, _, _, _)
InverseCategorical(d, cols, newdf, categorical_scaler) ==
    IF cols = <<>> THEN newdf
    ELSE LET c == Head(cols)
             inv == CategoricalInverse(categorical_scaler, Column(newdf, c).vals)
         IN  InverseCategorical(d, Tail(cols),
                IF NUnique(d, c) > 1
                THEN SetColumn(newdf, c, KBinsFitTransform(inv, NUnique(d, c)))
                ELSE newdf,
                categorical_scaler)

\* the loop of lines 159-163
RECURSIVE InverseNumerical(_, _, _)
InverseNumerical(cols, newdf, numerical_scaler) ==
    IF cols = <<>> THEN newdf
    ELSE InverseNumerical(Tail(cols),
            SetColumn(newdf, Head(cols),
                NumericalInverse(numerical_scaler, Column(newdf, Head(cols)).vals)),
            numerical_scaler)

\* Series.replace([a, b], [x, y]): every a becomes x and every b becomes y
Replace(vals, a, b, x, y) ==
    [i \in DOMAIN vals |->
        IF vals[i] = a THEN x ELSE IF vals[i] = b THEN y ELSE vals[i]]

\* variant of RemapBinary: the bin codes are left as they are
RemapBinarySkipped(d, cols, newdf) == [error |-> NoError, newdf |-> newdf]

\* the loop of lines 165-175; np.unique(newdf[c])[1] is an IndexError when
\* the column holds one value only
RECURSIVE RemapBinary(_, _, _)
RemapBinary(d, cols, newdf) ==
    IF cols = <<>> THEN [error |-> NoError, newdf |-> newdf]
    ELSE LET c == Head(cols)
             new == Unique(Column(newdf, c).vals)
             old == Unique(Values(d, c))
         IN  IF NUnique(d, c) = 2
             THEN IF Len(new) < 2
                  THEN [error |-> Error("IndexError", "index 1 is out of bounds", ""),
                        newdf |-> newdf]
                  ELSE RemapBinary(d, Tail(cols),
                          SetColumn(newdf, c,
                              Replace(Column(newdf, c).vals,
                                      new[1], new[2], old[1], old[2])))
             ELSE RemapBinary(d, Tail(cols), newdf)

generate_data(d, x, cat_cols, num_cols, cat_scaler, num_scaler) ==
    LET newdf0 == Frame(x, ColumnNames(d))
        newdf1 == InverseCategorical(d, cat_cols, newdf0, cat_scaler)
        newdf2 == InverseNumerical(num_cols, newdf1, num_scaler)
    IN  RemapBinary(d, cat_cols, newdf2)

(***************************************************************************)
(* synthetic_data: the checks of lines 208-215 and the final rescale of    *)
(* lines 305-316.                                                          *)
(***************************************************************************)
\* variant of HasNull: only the first row is looked at
HasNullInFirstRow(d) == \E j \in DOMAIN d : d[j].vals[1].tag = "nan"

\* sum(pd.isnull(df).sum()) > 0
HasNull(d) ==
    \E j \in DOMAIN d : \E r \in DOMAIN d[j].vals : d[j].vals[r].tag = "nan"

\* variant of DtypeIsObject: true of the object dtype only
DtypeEqualsObject(col) == ~col.categorical

\* isinstance(df[c].dtype, object): every Python value is an object
DtypeIsObject(col) == TRUE

\* isinstance(df[c].dtype, object) and isinstance(df.iloc[0][c], str)
LooksLikeStrings(col) == DtypeIsObject(col) /\ col.vals[1].tag = "str"

ValidationError(d) ==
    IF HasNull(d)
    THEN Error("ValueError", "There are nan values in your dataset", "")
    ELSE IF \E j \in DOMAIN d : LooksLikeStrings(d[j])
    THEN LET j == CHOOSE j \in DOMAIN d :
                      /\ LooksLikeStrings(d[j])
                      /\ \A k \in 1..(j - 1) : ~LooksLikeStrings(d[k])
         IN  Error("ValueError", "contains strings", d[j].name)
    ELSE NoError

\* variant of FinalRescale: the columns are left as generate_data made them
FinalRescaleSkipped(d, cols, newdf) == [error |-> NoError, newdf |-> newdf]

\* the loop of lines 305-316
RECURSIVE FinalRescale(_, _, _)
FinalRescale(d, cols, newdf) ==
    IF cols = <<>> THEN [error |-> NoError, newdf |-> newdf]
    ELSE LET c == Head(cols)
             lo == RMin(Values(d, c))
             hi == RMax(Values(d, c))
             col == Column(newdf, c).vals
         IN  IF BadFeatureRange(lo, hi)
             THEN [error |-> Error("ValueError",
                        "Minimum of desired feature range must be smaller than maximum",
                        ""),
                   newdf |-> newdf]
             ELSE FinalRescale(d, Tail(cols),
                     SetColumn(newdf, c, MinMaxTransform(MinMaxFit(col, lo, hi), col)))

(***************************************************************************)
(* One call of synthetic_data.                                             *)
(***************************************************************************)
VARIABLES
    pc,                  \* position in synthetic_data
    df, samples,         \* arguments
    initial_lr, dropout,
    numerical_columns, categorical_columns,
    scaled_X, categorical_scaler, numerical_scaler,
    gans,                \* the GAN instances constructed so far, oldest first
    gan,                 \* index in gans of the instance bound to `gan` (0: none)
    G_loss,
    x_synthetic,
    sampled_from,        \* index in gans of the instance that was sampled (0: none)
    newdf,
    result               \* the error raised, or "returned"

vars == <<pc, df, samples, initial_lr, dropout, numerical_columns,
          categorical_columns, scaled_X, categorical_scaler, numerical_scaler,
          gans, gan, G_loss, x_synthetic, sampled_from, newdf, result>>

\* the inputs
Marks == {"none", "allstr", "laststr", "lastnan"}

\* the cells of a column are enumerated in ascending order of their value:
\* no transform reads the position of a value in its column, and the
\* string check reads row 1, which a mark may fill with a string
ValueVectors ==
    {v \in [1..NRows -> 0..MaxVal] : \A r \in 1..(NRows - 1) : v[r] <= v[r + 1]}

Cells(v, mark) ==
    [r \in 1..NRows |->
        IF mark = "allstr" THEN StrCell(v[r])
        ELSE IF mark = "laststr" /\ r = NRows THEN StrCell(v[r])
        ELSE IF mark = "lastnan" /\ r = NRows THEN NanCell
        ELSE NumCell(v[r])]

ColumnSpecs == [categorical : BOOLEAN, v : ValueVectors, mark : Marks]

Dataset(specs) ==
    [j \in DOMAIN specs |->
        [name |-> ColName(j), categorical |-> specs[j].categorical,
         vals |-> Cells(specs[j].v, specs[j].mark)]]


\* generator outputs: below, inside and above [-1, 1]
GenValues == {R(-2), Rat(1, 2), R(2)}

\* generator losses: not above the threshold of line 271, and above it
LossValues == {R(1), R(2)}

Init ==
    /\ pc = "validate"
    /\ \E n \in 1..MaxCols : \E specs \in [1..n -> ColumnSpecs] : df = Dataset(specs)
    /\ samples \in 1..MaxSamples
    /\ initial_lr = Rat(2, 10000)
    /\ dropout = Rat(1, 2)
    /\ numerical_columns = <<>>
    /\ categorical_columns = <<>>
    /\ scaled_X = <<>>
    /\ categorical_scaler = Unfitted
    /\ numerical_scaler = Unfitted
    /\ gans = <<>>
    /\ gan = 0
    /\ G_loss = R(0)
    /\ x_synthetic = <<>>
    /\ sampled_from = 0
    /\ newdf = <<>>
    /\ result = NoError

Raise(e) == pc' = "error" /\ result' = e

\* lines 208-215
Validate ==
    /\ pc = "validate"
    /\ IF ValidationError(df) # NoError
       THEN Raise(ValidationError(df))
       ELSE pc' = "transform" /\ UNCHANGED result
    /\ UNCHANGED <<df, samples, initial_lr, dropout, numerical_columns,
                   categorical_columns, scaled_X, categorical_scaler,
                   numerical_scaler, gans, gan, G_loss, x_synthetic,
                   sampled_from, newdf>>

\* lines 217-227
Transform ==
    /\ pc = "transform"
    /\ LET t == columns_type(df)
           r == data_transformation(df, t.numerical_columns, t.categorical_columns)
       IN  /\ numerical_columns' = t.numerical_columns
           /\ categorical_columns' = t.categorical_columns
           /\ IF r.error # NoError
              THEN /\ Raise(r.error)
                   /\ UNCHANGED <<scaled_X, categorical_scaler, numerical_scaler>>
              ELSE /\ pc' = "train"
                   /\ scaled_X' = r.scaled_X
                   /\ categorical_scaler' = r.categorical_scaler
                   /\ numerical_scaler' = r.numerical_scaler
                   /\ UNCHANGED result
    /\ UNCHANGED <<df, samples, initial_lr, dropout, gans, gan, G_loss,
                   x_synthetic, sampled_from, newdf>>

\* train_gan, lines 229-261: a new GAN instance is constructed and trained,
\* and the name gan is bound to it
train_gan(n_features, learning_rate) ==
    \E loss \in LossValues :
        /\ gans' = Append(gans, [number_of_features |-> n_features,
                                 learning_rate |-> learning_rate,
                                 dropout |-> dropout])
        /\ gan' = Len(gans) + 1
        /\ G_loss' = loss

\* lines 263-270
FirstTrain ==
    /\ pc = "train"
    /\ IF scaled_X = <<>>
       THEN /\ Raise(Error("ValueError", "arrays must not be empty", ""))
            /\ UNCHANGED <<gans, gan, G_loss>>
       ELSE /\ train_gan(Len(df), initial_lr)
            /\ pc' = "retry"
            /\ UNCHANGED result
    /\ UNCHANGED <<df, samples, initial_lr, dropout, numerical_columns,
                   categorical_columns, scaled_X, categorical_scaler,
                   numerical_scaler, x_synthetic, sampled_from, newdf>>

\* variant of Retry: the second run divides the learning rate by 100
RetryHundredth ==
    /\ pc = "retry"
    /\ IF RLt(R(1), G_loss)
       THEN train_gan(Len(df), RDiv(initial_lr, R(100)))
       ELSE UNCHANGED <<gans, gan, G_loss>>
    /\ pc' = "sample"
    /\ UNCHANGED <<df, samples, initial_lr, dropout, numerical_columns,
                   categorical_columns, scaled_X, categorical_scaler,
                   numerical_scaler, x_synthetic, sampled_from, newdf, result>>

\* lines 271-291
Retry ==
    /\ pc = "retry"
    /\ IF RLt(R(1), G_loss)
       THEN train_gan(Len(df), RDiv(initial_lr, R(10)))
       ELSE IF RLt(R(1), G_loss)
            THEN train_gan(Len(df), RDiv(initial_lr, R(100)))
            ELSE UNCHANGED <<gans, gan, G_loss>>
    /\ pc' = "sample"
    /\ UNCHANGED <<df, samples, initial_lr, dropout, numerical_columns,
                   categorical_columns, scaled_X, categorical_scaler,
                   numerical_scaler, x_synthetic, sampled_from, newdf, result>>

\* lines 293-296: gan.create_fake_samples(batch_size = samples)
Sample ==
    /\ pc = "sample"
    /\ \E x \in [1..samples -> [1..Len(df) -> GenValues]] : x_synthetic' = x
    /\ sampled_from' = gan
    /\ pc' = "generate"
    /\ UNCHANGED <<df, samples, initial_lr, dropout, numerical_columns,
                   categorical_columns, scaled_X, categorical_scaler,
                   numerical_scaler, gans, gan, G_loss, newdf, result>>

\* lines 297-304
GenerateData ==
    /\ pc = "generate"
    /\ LET g == generate_data(df, x_synthetic, categorical_columns,
                              numerical_columns, categorical_scaler,
                              numerical_scaler)
       IN  IF g.error # NoError
           THEN Raise(g.error) /\ UNCHANGED newdf
           ELSE pc' = "rescale" /\ newdf' = g.newdf /\ UNCHANGED result
    /\ UNCHANGED <<df, samples, initial_lr, dropout, numerical_columns,
                   categorical_columns, scaled_X, categorical_scaler,
                   numerical_scaler, gans, gan, G_loss, x_synthetic,
                   sampled_from>>

\* lines 305-318
Rescale ==
    /\ pc = "rescale"
    /\ LET f == FinalRescale(df, numerical_columns, newdf)
       IN  IF f.error # NoError
           THEN Raise(f.error) /\ UNCHANGED newdf
           ELSE /\ pc' = "done"
                /\ newdf' = f.newdf
                /\ result' = [type |-> "returned", msg |-> "", column |-> ""]
    /\ UNCHANGED <<df, samples, initial_lr, dropout, numerical_columns,
                   categorical_columns, scaled_X, categorical_scaler,
                   numerical_scaler, gans, gan, G_loss, x_synthetic,
                   sampled_from>>

Next ==
    \/ Validate
    \/ Transform
    \/ FirstTrain
    \/ Retry
    \/ Sample
    \/ GenerateData
    \/ Rescale

Spec == Init /\ [][Next]_vars

(***************************************************************************)
(* The round trip that bypasses the generator: the scaled matrix and the   *)
(* two scalers returned by data_transformation are handed to               *)
(* generate_data.                                                          *)
(***************************************************************************)
RoundTrip ==
    /\ pc = "train"
    /\ LET g == generate_data(df, scaled_X, categorical_columns,
                              numerical_columns, categorical_scaler,
                              numerical_scaler)
       IN  IF g.error # NoError
           THEN Raise(g.error) /\ UNCHANGED newdf
           ELSE pc' = "roundtrip" /\ newdf' = g.newdf /\ UNCHANGED result
    /\ UNCHANGED <<df, samples, initial_lr, dropout, numerical_columns,
                   categorical_columns, scaled_X, categorical_scaler,
                   numerical_scaler, gans, gan, G_loss, x_synthetic,
                   sampled_from>>

NextRoundTrip ==
    \/ Validate
    \/ Transform
    \/ RoundTrip

SpecRoundTrip == Init /\ [][NextRoundTrip]_vars

(***************************************************************************)
(* Properties.                                                             *)
(***************************************************************************)
Ended == pc \in {"done", "error"}

MissingIn(d) ==
    \E j \in DOMAIN d : \E r \in DOMAIN d[j].vals : d[j].vals[r].tag = "nan"

StringColumns(d) ==
    {d[j].name : j \in {k \in DOMAIN d :
                            \E r \in DOMAIN d[k].vals : d[k].vals[r].tag = "str"}}

NumericalOf(d) == {d[j].name : j \in {k \in DOMAIN d : ~d[k].categorical}}
CategoricalOf(d) == {d[j].name : j \in {k \in DOMAIN d : d[k].categorical}}
InputValues(d, c) == {R(Column(d, c).vals[r].val) : r \in DOMAIN Column(d, c).vals}
OutputValues(c) == Range(Column(newdf, c).vals)

\* C1: a dataset with a missing value ends in the ValueError, and no
\* generator is constructed, trained or sampled in that call.
C1_MissingRejectedBeforeGan ==
    MissingIn(df) =>
        /\ gans = <<>> /\ gan = 0 /\ sampled_from = 0
        /\ pc \in {"validate", "error"}
        /\ pc = "error" =>
              /\ result.type = "ValueError"
              /\ result.msg = "There are nan values in your dataset"

\* C1 witness: the call has ended in the error on a dataset that holds a
\* missing value and, in another column, strings.
C1_Witness ==
    /\ pc = "error" /\ MissingIn(df) /\ StringColumns(df) # {}
    /\ result.type = "ValueError" /\ gans = <<>>

\* C2 as stated: a dataset without missing values that holds a string in
\* any row ends in the ValueError naming a column that contains strings,
\* and no generator is constructed.
C2_AnyStringRejectedByName ==
    (~MissingIn(df) /\ StringColumns(df) # {}) =>
        /\ gans = <<>>
        /\ Ended => /\ pc = "error"
                    /\ result.type = "ValueError"
                    /\ result.column \in StringColumns(df)

\* the dataset of C3: one numerical column without strings and one
\* categorical column with two distinct labels
C3_Shape(d) ==
    /\ Len(d) = 2
    /\ \E j \in 1..2 :
          /\ ~d[j].categorical
          /\ \A r \in DOMAIN d[j].vals : d[j].vals[r].tag = "num"
          /\ d[3 - j].categorical
          /\ Cardinality(InputValues(d, d[3 - j].name)) = 2
C3_Categorical(d) == CHOOSE c \in CategoricalOf(d) : TRUE
C3_StringLabels(d) ==
    /\ C3_Shape(d)
    /\ \A r \in 1..NRows : Column(d, C3_Categorical(d)).vals[r].tag = "str"
C3_NumberLabels(d) ==
    /\ C3_Shape(d)
    /\ \A r \in 1..NRows : Column(d, C3_Categorical(d)).vals[r].tag = "num"

C3_Output ==
    /\ \A j \in DOMAIN newdf : Len(newdf[j].vals) = samples
    /\ \A c \in NumericalOf(df) : \A v \in OutputValues(c) :
          RLe(RMin(Values(df, c)), v) /\ RLe(v, RMax(Values(df, c)))
    /\ \A c \in CategoricalOf(df) : OutputValues(c) \subseteq InputValues(df, c)

\* C3 as stated: the dataset with the labels "A" and "B" is accepted: the
\* call raises no error, and what it returns has the requested number of
\* rows, numerical values in the input range and categories "A" / "B".
C3_StringLabelsAccepted ==
    C3_StringLabels(df) => /\ pc # "error"
                           /\ pc = "done" => C3_Output

\* C3 amended: the dataset with the labels "A" and "B" is rejected with the
\* ValueError that names the categorical column, before any generator is
\* constructed; with the two labels encoded as numbers the input checks
\* pass, and whenever the call returns, the result has the requested
\* number of rows, numerical values in the input range and categories
\* among the two input codes.
C3_StringLabelsRejected ==
    /\ C3_StringLabels(df) =>
          /\ gans = <<>>
          /\ pc \in {"validate", "error"}
          /\ pc = "error" => /\ result.type = "ValueError"
                             /\ result.column = C3_Categorical(df)
    /\ C3_NumberLabels(df) =>
          /\ result.msg \notin {"contains strings",
                                 "There are nan values in your dataset"}
          /\ pc = "done" => C3_Output

\* C3 witness: the call on the "A" / "B" dataset has been rejected.
C3_Witness ==
    /\ C3_StringLabels(df) /\ pc = "error"
    /\ result.column = C3_Categorical(df)

\* C4: in a returned dataset every numerical value lies in the closed range
\* of its input column.
C4_NumericalInRange ==
    pc = "done" =>
        \A c \in NumericalOf(df) : \A v \in OutputValues(c) :
            RLe(RMin(Values(df, c)), v) /\ RLe(v, RMax(Values(df, c)))

\* C4 witness: a dataset was returned for two numerical columns of different
\* ranges, from a generator output that leaves [-1, 1] in the column the
\* numerical scaler was not last fitted on.
C4_Witness ==
    /\ pc = "done" /\ Len(df) = 2
    /\ NumericalOf(df) = {df[1].name, df[2].name}
    /\ RMax(Values(df, df[1].name)) # RMax(Values(df, df[2].name))
    /\ RMin(Values(df, df[1].name)) # RMin(Values(df, df[2].name))
    /\ \E r \in DOMAIN x_synthetic : RLt(x_synthetic[r][1], R(-1))
    /\ \E r \in DOMAIN x_synthetic : ~RLt(x_synthetic[r][1], R(-1))

\* C5 as stated: in a returned dataset every value of every categorical
\* column is one of the distinct values of the input column.
C5_CategoricalFromInput ==
    pc = "done" =>
        \A c \in CategoricalOf(df) : OutputValues(c) \subseteq InputValues(df, c)

\* C5 amended: in a returned dataset a categorical column with two distinct
\* input values holds only those two values; one with k > 2 distinct input
\* values holds bin codes in 0..k-1; one with a single input value holds
\* the generator's values unchanged.
C5_CategoricalByCount ==
    pc = "done" =>
        \A j \in DOMAIN df : df[j].categorical =>
            LET c == df[j].name
                k == Cardinality(InputValues(df, c))
            IN  /\ k = 2 => OutputValues(c) \subseteq InputValues(df, c)
                /\ k > 2 => OutputValues(c) \subseteq {R(b) : b \in 0..(k - 1)}
                /\ k = 1 => Column(newdf, c).vals =
                                [r \in DOMAIN x_synthetic |-> x_synthetic[r][j]]

\* C5 witness: a dataset was returned whose binary categorical column has
\* input values other than the bin codes 0 and 1, and both came out.
C5_Witness ==
    /\ pc = "done"
    /\ \E c \in CategoricalOf(df) :
          /\ Cardinality(InputValues(df, c)) = 2
          /\ InputValues(df, c) # {R(0), R(1)}
          /\ OutputValues(c) = InputValues(df, c)

\* C6 as stated: the round trip reconstructs every numerical column and
\* every categorical column with more than one distinct value.
C6_RoundTripReconstructs ==
    pc = "roundtrip" =>
        \A j \in DOMAIN df :
            (~df[j].categorical \/ Cardinality(InputValues(df, df[j].name)) > 1)
                => newdf[j].vals = Values(df, df[j].name)

\* C7: a returned dataset has the input's column names, in the input's
\* order.
C7_ColumnsPreserved ==
    pc = "done" => ColumnNames(newdf) = ColumnNames(df)

\* C7 witness: a dataset with a categorical column before a numerical one
\* was returned.
C7_Witness ==
    /\ pc = "done" /\ Len(df) = 2
    /\ df[1].categorical /\ ~df[2].categorical

\* C8: the first training run uses a generator constructed with initial_lr;
\* a second run happens iff the loss of the first run is above 1, on a new
\* instance with initial_lr / 10 and the same feature count and dropout.
C8_RetryOnce ==
    [][ /\ pc = "train" /\ pc' = "retry" =>
            /\ gans' = <<[number_of_features |-> Len(df),
                          learning_rate |-> initial_lr,
                          dropout |-> dropout]>>
            /\ gan' = 1
        /\ pc = "retry" =>
            /\ RLt(R(1), G_loss) =>
                  /\ gans' = Append(gans,
                        [number_of_features |-> Len(df),
                         learning_rate |-> RDiv(initial_lr, R(10)),
                         dropout |-> dropout])
                  /\ gan' = 2
            /\ ~RLt(R(1), G_loss) => gans' = gans /\ gan' = gan
      ]_vars

\* C8 witness: a second run has happened.
C8_Witness == pc = "sample" /\ Len(gans) = 2 /\ gan = 2

\* C9 as stated: when the loss is still above 1 after the second run, a
\* third run with initial_lr / 100 precedes the sampling; at most three
\* runs; the samples come from the last run's generator.
C9_ThirdRun ==
    pc \in {"sample", "generate"} =>
        /\ Len(gans) <= 3
        /\ (Len(gans) >= 2 /\ RLt(R(1), G_loss)) =>
              /\ Len(gans) = 3
              /\ gans[3].learning_rate = RDiv(initial_lr, R(100))
        /\ pc = "generate" => sampled_from = Len(gans)

\* C10 as stated: once the generator has been asked for samples, the call
\* does not end in an error.
C10_NoErrorAfterSampling ==
    sampled_from # 0 => pc # "error"

====
